---- MODULE Spec2Model ----
(***************************************************************************)
(* A model of the SNE repository: the batched graph sampler                *)
(* GMLPDataLoader, the training loop train_model, and the helpers          *)
(* get_dataset, get_triu_items and clean_data (src/utils.py,               *)
(* src/train_gmlp.py).                                                     *)
(*                                                                         *)
(* Tensors are functions over 0-based index ranges (0..n-1), as in the     *)
(* source; Python lists and the columns of edge_index are sequences.       *)
(***************************************************************************)
EXTENDS Integers, Sequences, FiniteSets, TLC

\* ------------------------------------------------------------------ bounds
MaxN == 3          \* largest node count of a loader
MaxEdges == 2      \* longest edge list (columns of data.edge_index)
MaxB == 4          \* largest batch size
MaxEpochNum == 2   \* largest epoch_num of a training run
MaxRows == 3       \* longest samples file (data rows)
MaxIntr == 2       \* longest interactions file (data rows)
MaxTriuN == 3      \* largest matrix side given to get_triu_items

Genes == 1..3      \* entity names; their order is the order numpy sorts them in
LossVals == {1, 2} \* values a batch loss can take
AccVals == {0, 1}  \* values a batch accuracy can take

\* ----------------------------------------------------------------- helpers
Min(a, b) == IF a <= b THEN a ELSE b

Range(s) == {s[k] : k \in DOMAIN s}

SeqsUpTo(S, n) == UNION {[1..k -> S] : k \in 0..n}

\* ------------------------------------------------------------------- state
VARIABLES
    \* GMLPDataLoader: constructor arguments
    data_x, edge_index, batch_size, drop_last,
    \* GMLPDataLoader: fields
    self_x, self_y, sample_num,
    \* one running iterator of the loader (the generator of __iter__)
    lpc, it_k, random_index, x_batch, y_batch,
    \* history of the index sequences drawn since __iter__ was called
    logging, epoch_log,
    \* train_model
    tpc, epoch_num, is_saving_model, epoch, loader_step, train_loss, train_acc,
    n_batches, batch_ops, opt_steps, saves, epoch_stats, cur_loss,
    \* get_dataset
    ds_names, ds_intr, ds_has_intr, ds_pc, ds_data,
    \* get_triu_items
    tr_m, tr_pc, tr_out,
    \* clean_data
    cl_samples, cl_intr, cl_pc, cleaned_genes, out_smpl, out_intr

loaderVars == <<data_x, edge_index, batch_size, drop_last, self_x, self_y,
                sample_num, lpc, it_k, random_index, x_batch, y_batch,
                logging, epoch_log>>
trainVars == <<tpc, epoch_num, is_saving_model, epoch, loader_step, train_loss,
               train_acc, n_batches, batch_ops, opt_steps, saves, epoch_stats,
               cur_loss>>
dsVars == <<ds_names, ds_intr, ds_has_intr, ds_pc, ds_data>>
triuVars == <<tr_m, tr_pc, tr_out>>
cleanVars == <<cl_samples, cl_intr, cl_pc, cleaned_genes, out_smpl, out_intr>>
vars == <<loaderVars, trainVars, dsVars, triuVars, cleanVars>>

\* ============================================================ GMLPDataLoader

\* len(t) of a tensor or matrix held as a function over 0..n-1
NumRows(t) == Cardinality(DOMAIN t)

\* torch.sparse_coo_tensor(edge_index, ones, (n, n)).to_dense(): duplicated
\* coordinates are summed
SparseToDense(edges, n) ==
    [i \in 0..n-1 |-> [j \in 0..n-1 |->
        Cardinality({k \in DOMAIN edges : edges[k] = <<i, j>>})]]

\* torch.logical_or(y, y.T).type(torch.float32)
LogicalOrT(y) ==
    [i \in DOMAIN y |-> [j \in DOMAIN y |->
        IF y[i][j] # 0 \/ y[j][i] # 0 THEN 1 ELSE 0]]

\* y.fill_diagonal_(1.)
FillDiagonal(y) ==
    [i \in DOMAIN y |-> [j \in DOMAIN y |-> IF i = j THEN 1 ELSE y[i][j]]]

BuildAdj_NoTranspose(edges, n) ==
    FillDiagonal([i \in 0..n-1 |-> [j \in 0..n-1 |->
        IF SparseToDense(edges, n)[i][j] # 0 THEN 1 ELSE 0]])

\* self.y as __init__ builds it
BuildAdj(edges, n) == FillDiagonal(LogicalOrT(SparseToDense(edges, n)))

SampleNum_AlwaysFloor(n, b, dl) == n \div b

\* self.sample_num as __init__ computes it
SampleNum(n, b, dl) == IF dl THEN n \div b ELSE (n + b - 1) \div b

LoaderLen_Floor == NumRows(self_x) \div batch_size

\* GMLPDataLoader.__len__
LoaderLen == sample_num

\* torch.randperm(n): every permutation of 0..n-1
RandPerm(n) == {p \in [1..n -> 0..n-1] : \A a, c \in 1..n : p[a] = p[c] => a = c}

\* s[:b] for b >= 0
Slice(s, b) == SubSeq(s, 1, Min(b, Len(s)))

DrawIndex_WithReplacement(n, b) == [1..Min(b, n) -> 0..n-1]

\* torch.randperm(len(self.x))[:self.batch_size]
DrawIndex(n, b) == {Slice(p, b) : p \in RandPerm(n)}

\* t[index] for an index tensor: the rows of t at the positions of index
Gather(t, idx) == [p \in 0..Len(idx)-1 |-> t[idx[p + 1]]]

\* m[:, index]: the columns of m at the positions of index
GatherCols(m, idx) == [r \in DOMAIN m |-> Gather(m[r], idx)]

SubAdj_RowsOnly(y, idx) ==
    [p \in 0..Len(idx)-1 |-> [q \in 0..Len(idx)-1 |-> y[idx[p + 1]][q]]]

\* self.y[random_index, :][:, random_index]
SubAdj(y, idx) == GatherCols(Gather(y, idx), idx)

\* the feature matrices given to the loader: one row per node, the rows distinct
XChoices(n) == {[i \in 0..n-1 |-> <<i>>]}

\* the edge lists given to the loader: every list of up to MaxEdges columns over
\* 0..n-1, one-directional, duplicated and self-edges included, each multiset
\* of columns listed once (in row-major order of its columns)
EdgeLists(n) ==
    {e \in SeqsUpTo((0..n-1) \X (0..n-1), MaxEdges) :
        \A k \in 1..Len(e)-1 : e[k][1] * n + e[k][2] <= e[k+1][1] * n + e[k+1][2]}

\* GMLPDataLoader.__init__ applied to (data, batch_size, drop_last)
Construct(x, edges, b, dl) ==
    /\ data_x = x
    /\ edge_index = edges
    /\ batch_size = b
    /\ drop_last = dl
    /\ self_x = x
    /\ self_y = BuildAdj(edges, NumRows(x))
    /\ sample_num = SampleNum(NumRows(x), b, dl)
    /\ lpc = "ready"
    /\ it_k = 0
    /\ random_index = <<>>
    /\ x_batch = <<>>
    /\ y_batch = <<>>
    /\ epoch_log = <<>>

\* iter(loader): a fresh generator, suspended before its first statement
IterStart ==
    /\ lpc \in {"ready", "exhausted"}
    /\ lpc' = "iter"
    /\ it_k' = 0
    /\ epoch_log' = <<>>
    /\ UNCHANGED <<data_x, edge_index, batch_size, drop_last, self_x, self_y,
                   sample_num, random_index, x_batch, y_batch, logging>>

\* next(iterator) while range(self.sample_num) has items left: one loop body
IterNext ==
    /\ lpc \in {"iter", "yielded"}
    /\ it_k < sample_num
    /\ \E idx \in DrawIndex(NumRows(self_x), batch_size) :
        /\ random_index' = idx
        /\ x_batch' = Gather(self_x, idx)
        /\ y_batch' = SubAdj(self_y, idx)
        /\ epoch_log' = IF logging THEN Append(epoch_log, idx) ELSE epoch_log
    /\ it_k' = it_k + 1
    /\ lpc' = "yielded"
    /\ UNCHANGED <<data_x, edge_index, batch_size, drop_last, self_x, self_y,
                   sample_num, logging>>

\* next(iterator) once the range is used up: the generator returns
\* (StopIteration) and its locals random_index, x_batch, y_batch are gone
IterStop ==
    /\ lpc \in {"iter", "yielded"}
    /\ it_k >= sample_num
    /\ lpc' = "exhausted"
    /\ random_index' = <<>>
    /\ x_batch' = <<>>
    /\ y_batch' = <<>>
    /\ UNCHANGED <<data_x, edge_index, batch_size, drop_last, self_x, self_y,
                   sample_num, it_k, logging, epoch_log>>

\* =============================================================== train_model

BatchOrder == <<"forward", "zero_grad", "loss", "backward", "step">>

LoopDone_OneShort(ep, en) == ep >= en - 1

\* `for epoch in range(epoch_num)` has no item left
LoopDone(ep, en) == ep >= en

loaderFixed == <<data_x, edge_index, batch_size, drop_last, self_x, self_y,
                 sample_num, logging>>
loaderAll == <<loaderFixed, lpc, it_k, random_index, x_batch, y_batch, epoch_log>>

\* train_model is entered: criterion and optimizer are made
TrainBegin ==
    /\ tpc = "start"
    /\ tpc' = "epoch_head"
    /\ UNCHANGED <<epoch_num, is_saving_model, epoch, loader_step, train_loss,
                   train_acc, n_batches, batch_ops, opt_steps, saves,
                   epoch_stats, cur_loss>>
    /\ UNCHANGED loaderAll

\* the head of an epoch: the accumulators are reset and enumerate(data_loader)
\* makes a fresh iterator
EpochBegin ==
    /\ tpc = "epoch_head"
    /\ ~LoopDone(epoch, epoch_num)
    /\ train_loss' = 0
    /\ train_acc' = 0
    /\ n_batches' = 0
    /\ IterStart
    /\ tpc' = "fetch"
    /\ UNCHANGED <<epoch_num, is_saving_model, epoch, loader_step, batch_ops,
                   opt_steps, saves, epoch_stats, cur_loss>>

\* the batch loop takes the next batch of the loader
FetchBatch ==
    /\ tpc = "fetch"
    /\ IterNext
    /\ batch_ops' = <<>>
    /\ tpc' = "forward"
    /\ UNCHANGED <<epoch_num, is_saving_model, epoch, loader_step, train_loss,
                   train_acc, n_batches, opt_steps, saves, epoch_stats, cur_loss>>

\* the batch loop finds the loader used up
FetchStop ==
    /\ tpc = "fetch"
    /\ IterStop
    /\ tpc' = "epoch_end"
    /\ UNCHANGED <<epoch_num, is_saving_model, epoch, loader_step, train_loss,
                   train_acc, n_batches, batch_ops, opt_steps, saves,
                   epoch_stats, cur_loss>>

\* z, y_hat = model(x)
Forward ==
    /\ tpc = "forward"
    /\ batch_ops' = Append(batch_ops, "forward")
    /\ tpc' = "zero_grad"
    /\ UNCHANGED <<epoch_num, is_saving_model, epoch, loader_step, train_loss,
                   train_acc, n_batches, opt_steps, saves, epoch_stats, cur_loss>>
    /\ UNCHANGED loaderAll

\* optimizer.zero_grad()
ZeroGrad ==
    /\ tpc = "zero_grad"
    /\ batch_ops' = Append(batch_ops, "zero_grad")
    /\ tpc' = "loss"
    /\ UNCHANGED <<epoch_num, is_saving_model, epoch, loader_step, train_loss,
                   train_acc, n_batches, opt_steps, saves, epoch_stats, cur_loss>>
    /\ UNCHANGED loaderAll

\* loss = criterion(y_hat, y) + F.mse_loss(y_hat, y) * 100
ComputeLoss ==
    /\ tpc = "loss"
    /\ \E l \in LossVals : cur_loss' = l
    /\ batch_ops' = Append(batch_ops, "loss")
    /\ tpc' = "backward"
    /\ UNCHANGED <<epoch_num, is_saving_model, epoch, loader_step, train_loss,
                   train_acc, n_batches, opt_steps, saves, epoch_stats>>
    /\ UNCHANGED loaderAll

\* loss.backward()
Backward ==
    /\ tpc = "backward"
    /\ batch_ops' = Append(batch_ops, "backward")
    /\ tpc' = "step"
    /\ UNCHANGED <<epoch_num, is_saving_model, epoch, loader_step, train_loss,
                   train_acc, n_batches, opt_steps, saves, epoch_stats, cur_loss>>
    /\ UNCHANGED loaderAll

\* optimizer.step()
OptimizerStep ==
    /\ tpc = "step"
    /\ opt_steps' = opt_steps + 1
    /\ batch_ops' = Append(batch_ops, "step")
    /\ tpc' = "accumulate"
    /\ UNCHANGED <<epoch_num, is_saving_model, epoch, loader_step, train_loss,
                   train_acc, n_batches, saves, epoch_stats, cur_loss>>
    /\ UNCHANGED loaderAll

\* train_loss += loss; train_acc += (abs(y - y_hat) < delta).float().mean()
Accumulate ==
    /\ tpc = "accumulate"
    /\ train_loss' = train_loss + cur_loss
    /\ \E a \in AccVals : train_acc' = train_acc + a
    /\ n_batches' = n_batches + 1
    /\ tpc' = "fetch"
    /\ UNCHANGED <<epoch_num, is_saving_model, epoch, loader_step, batch_ops,
                   opt_steps, saves, epoch_stats, cur_loss>>
    /\ UNCHANGED loaderAll

\* a statement of the batch body raises (the model, the criterion, the
\* backward pass or the optimizer): nothing in train_model catches it
BatchFails ==
    /\ tpc \in {"forward", "zero_grad", "loss", "backward", "step", "accumulate"}
    /\ tpc' = "failed"
    /\ UNCHANGED <<epoch_num, is_saving_model, epoch, loader_step, train_loss,
                   train_acc, n_batches, batch_ops, opt_steps, saves,
                   epoch_stats, cur_loss>>
    /\ UNCHANGED loaderAll

\* loader_step = len(data_loader); the sums are divided by it. The quotients
\* are kept as epoch_stats: the sums, their divisor, and the number of batches
\* the epoch processed.
EpochEnd ==
    /\ tpc = "epoch_end"
    /\ loader_step' = LoaderLen
    /\ LoaderLen # 0
    /\ epoch_stats' = [loss_sum |-> train_loss, acc_sum |-> train_acc,
                       divisor |-> LoaderLen, batches |-> n_batches]
    /\ epoch' = epoch + 1
    /\ tpc' = "epoch_head"
    /\ UNCHANGED <<epoch_num, is_saving_model, train_loss, train_acc,
                   n_batches, batch_ops, opt_steps, saves, cur_loss>>
    /\ UNCHANGED loaderAll

\* train_loss / loader_step with loader_step = 0: ZeroDivisionError
EpochEndZeroDiv ==
    /\ tpc = "epoch_end"
    /\ loader_step' = LoaderLen
    /\ LoaderLen = 0
    /\ tpc' = "zero_div"
    /\ UNCHANGED <<epoch_num, is_saving_model, epoch, train_loss, train_acc,
                   n_batches, batch_ops, opt_steps, saves, epoch_stats, cur_loss>>
    /\ UNCHANGED loaderAll

\* after the epoch loop: torch.save when is_saving_model, then return
SaveAndReturn ==
    /\ tpc = "epoch_head"
    /\ LoopDone(epoch, epoch_num)
    /\ saves' = IF is_saving_model THEN saves + 1 ELSE saves
    /\ tpc' = "done"
    /\ UNCHANGED <<epoch_num, is_saving_model, epoch, loader_step, train_loss,
                   train_acc, n_batches, batch_ops, opt_steps, epoch_stats,
                   cur_loss>>
    /\ UNCHANGED loaderAll

\* =============================================================== get_dataset

\* list.index(v): the 0-based position of the first item equal to v
\* (ValueError when there is none: see Absent)
ListIndex(list, v) ==
    (CHOOSE k \in DOMAIN list :
        list[k] = v /\ \A h \in DOMAIN list : list[h] = v => k <= h) - 1

\* torch.vstack((a, b)) of two index vectors, as the sequence of its columns
VStack(a, b) == [k \in DOMAIN a |-> <<a[k], b[k]>>]

EdgeIndexOf_NoReverse(node1_index, node2_index) == VStack(node1_index, node2_index)

\* edge_index = hstack(vstack(node1_index, node2_index),
\*                     vstack(node2_index, node1_index))
EdgeIndexOf(node1_index, node2_index) ==
    VStack(node1_index, node2_index) \o VStack(node2_index, node1_index)

\* some name of the interactions file is in no row of the samples file:
\* node_names.index raises ValueError
Absent(names, intr) ==
    \E k \in DOMAIN intr : intr[k][1] \notin Range(names) \/ intr[k][2] \notin Range(names)

\* the Data object get_dataset returns (feature values are left out: x keeps
\* one row per samples row)
DatasetOf(names, intr, has_intr) ==
    [x |-> [i \in 0..Len(names)-1 |-> <<>>],
     edge_index |->
        IF has_intr
        THEN EdgeIndexOf([k \in DOMAIN intr |-> ListIndex(names, intr[k][1])],
                         [k \in DOMAIN intr |-> ListIndex(names, intr[k][2])])
        ELSE "None",
     node_names |-> names]

\* get_dataset returns
GetDatasetReturns ==
    /\ ds_pc = "called"
    /\ ~(ds_has_intr /\ Absent(ds_names, ds_intr))
    /\ ds_data' = DatasetOf(ds_names, ds_intr, ds_has_intr)
    /\ ds_pc' = "returned"
    /\ UNCHANGED <<ds_names, ds_intr, ds_has_intr>>

\* get_dataset raises out of a node_names.index call
GetDatasetRaises ==
    /\ ds_pc = "called"
    /\ ds_has_intr /\ Absent(ds_names, ds_intr)
    /\ ds_pc' = "raised"
    /\ UNCHANGED <<ds_names, ds_intr, ds_has_intr, ds_data>>

\* ============================================================ get_triu_items

RECURSIVE TriuFrom(_, _, _, _)
TriuFrom(k, r, c, offset) ==
    IF k >= r * c THEN <<>>
    ELSE LET i == k \div c
             j == k % c IN
         (IF j - i >= offset THEN << <<i, j>> >> ELSE <<>>)
            \o TriuFrom(k + 1, r, c, offset)

\* torch.triu_indices(r, c, offset): the coordinates on and above the
\* offset-th diagonal, in row-major order
TriuIndices(r, c, offset) == TriuFrom(0, r, c, offset)

\* m.shape[1] of a square matrix
NumCols(m) == IF NumRows(m) = 0 THEN 0 ELSE NumRows(m[0])

TriuItems_WithDiagonal(m) ==
    LET ij == TriuIndices(NumRows(m), NumCols(m), 0) IN
    [k \in 1..Len(ij) |-> m[ij[k][1]][ij[k][2]]]

\* get_triu_items(m): m[i, j] over the coordinates of triu_indices(.., 1)
TriuItems(m) ==
    LET ij == TriuIndices(NumRows(m), NumCols(m), 1) IN
    [k \in 1..Len(ij) |-> m[ij[k][1]][ij[k][2]]]

GetTriuItems ==
    /\ tr_pc = "called"
    /\ tr_out' = TriuItems(tr_m)
    /\ tr_pc' = "returned"
    /\ UNCHANGED tr_m

\* ================================================================ clean_data

RECURSIVE SortSet(_)
\* the members of a set of names in ascending order
SortSet(S) ==
    IF S = {} THEN <<>>
    ELSE LET lo == CHOOSE v \in S : \A w \in S : v <= w IN
         <<lo>> \o SortSet(S \ {lo})

\* the names in either column of the interactions
IntrNames(intr) == {intr[k][1] : k \in DOMAIN intr} \cup {intr[k][2] : k \in DOMAIN intr}

\* np.intersect1d(gene_in_samples, gene_in_interactions): sorted and unique
Intersect1d(samples, intr) == SortSet(Range(samples) \cap IntrNames(intr))

\* the samples rows whose name is in genes, in file order
KeepSamples(samples, genes) == SelectSeq(samples, LAMBDA g : g \in Range(genes))

\* the interaction rows with both names in genes, in file order
KeepInteractions(intr, genes) ==
    SelectSeq(intr, LAMBDA e : e[1] \in Range(genes) /\ e[2] \in Range(genes))

RECURSIVE Grow(_, _)
\* the nodes joined to a node of S by edges of the graph of matrix y
Grow(y, S) ==
    LET T == S \cup {j \in DOMAIN y : \E i \in S : y[i][j] # 0 \/ y[j][i] # 0} IN
    IF T = S THEN S ELSE Grow(y, T)

\* nx.connected_components(G) of G = from_numpy_matrix(y)
ConnectedComponents(y) == {Grow(y, {i}) : i \in DOMAIN y}

MinOf(S) == CHOOSE v \in S : \A w \in S : v <= w

\* max(components, key=len): the first of the largest ones, the components
\* coming in the order of their smallest node
LargestComponent(y) ==
    CHOOSE c \in ConnectedComponents(y) :
        \A d \in ConnectedComponents(y) :
            \/ Cardinality(c) > Cardinality(d)
            \/ Cardinality(c) = Cardinality(d) /\ MinOf(c) <= MinOf(d)

\* cleaned_genes[list(c)]: the items of the array at the positions in c
TakeAt(arr, c) == [k \in 1..Cardinality(c) |-> arr[SortSet(c)[k] + 1]]

\* lines 66-91: intersection of the gene names, first write of both files
CleanFirstPass ==
    /\ cl_pc = "called"
    /\ cleaned_genes' = Intersect1d(cl_samples, cl_intr)
    /\ out_smpl' = KeepSamples(cl_samples, cleaned_genes')
    /\ out_intr' = KeepInteractions(cl_intr, cleaned_genes')
    /\ cl_pc' = "first_pass"
    /\ UNCHANGED <<cl_samples, cl_intr>>

\* reading the two files back fails: with no row kept, new_interactions is
\* still the 1-D array of the two column names and is written as one column,
\* so iloc[:, 1] in get_dataset is out of bounds; or a component index is
\* past the end of cleaned_genes
ReadBackFails ==
    IF Len(out_intr) = 0 \/ Absent(out_smpl, out_intr) THEN TRUE
    ELSE \E i \in LargestComponent(SparseToDense(
                DatasetOf(out_smpl, out_intr, TRUE).edge_index, Len(out_smpl))) :
            i >= Len(cleaned_genes)

\* lines 95-127: the largest connected component of the graph read back,
\* cleaned_genes indexed by it, second write of both files
CleanSecondPass ==
    /\ cl_pc = "first_pass"
    /\ ~ReadBackFails
    /\ LET data == DatasetOf(out_smpl, out_intr, TRUE)
           y == SparseToDense(data.edge_index, NumRows(data.x))
           c == LargestComponent(y) IN
        cleaned_genes' = TakeAt(cleaned_genes, c)
    /\ out_smpl' = KeepSamples(cl_samples, cleaned_genes')
    /\ out_intr' = KeepInteractions(cl_intr, cleaned_genes')
    /\ cl_pc' = "done"
    /\ UNCHANGED <<cl_samples, cl_intr>>

CleanSecondPassRaises ==
    /\ cl_pc = "first_pass"
    /\ ReadBackFails
    /\ cl_pc' = "raised"
    /\ UNCHANGED <<cl_samples, cl_intr, cleaned_genes, out_smpl, out_intr>>

\* ---- idle values of the parts a specification does not use
LoaderIdle ==
    /\ Construct(<<>>, <<>>, 1, FALSE)
    /\ logging = FALSE

TrainIdle ==
    /\ tpc = "idle"
    /\ epoch_num = 0
    /\ is_saving_model = FALSE
    /\ epoch = 0
    /\ loader_step = 0
    /\ train_loss = 0
    /\ train_acc = 0
    /\ n_batches = 0
    /\ batch_ops = <<>>
    /\ opt_steps = 0
    /\ saves = 0
    /\ epoch_stats = <<>>
    /\ cur_loss = 0

DsIdle ==
    /\ ds_names = <<>>
    /\ ds_intr = <<>>
    /\ ds_has_intr = FALSE
    /\ ds_pc = "idle"
    /\ ds_data = <<>>

TriuIdle ==
    /\ tr_m = <<>>
    /\ tr_pc = "idle"
    /\ tr_out = <<>>

CleanIdle ==
    /\ cl_samples = <<>>
    /\ cl_intr = <<>>
    /\ cl_pc = "idle"
    /\ cleaned_genes = <<>>
    /\ out_smpl = <<>>
    /\ out_intr = <<>>

\* ---- the loader on its own: every data set, batch size and drop_last flag
Init ==
    /\ \E n \in 0..MaxN, b \in 1..MaxB, dl \in BOOLEAN :
        \E x \in XChoices(n), edges \in EdgeLists(n) :
            Construct(x, edges, b, dl)
    /\ logging = FALSE
    /\ TrainIdle /\ DsIdle /\ TriuIdle /\ CleanIdle

Next ==
    \/ IterStart /\ UNCHANGED <<trainVars, dsVars, triuVars, cleanVars>>
    \/ IterNext /\ UNCHANGED <<trainVars, dsVars, triuVars, cleanVars>>
    \/ IterStop /\ UNCHANGED <<trainVars, dsVars, triuVars, cleanVars>>

Spec == Init /\ [][Next]_vars

\* ---- one loader per (node count, batch size, drop_last), with the index
\* sequences of the running epoch recorded in epoch_log
InitEpoch ==
    /\ \E n \in 0..MaxN, b \in 1..MaxB, dl \in BOOLEAN :
        \E x \in XChoices(n) : Construct(x, <<>>, b, dl)
    /\ logging = TRUE
    /\ TrainIdle /\ DsIdle /\ TriuIdle /\ CleanIdle

SpecEpoch == InitEpoch /\ [][Next]_vars

\* ==================================================== claims on the loader

N == NumRows(data_x)

Injective(s) == \A a, c \in DOMAIN s : s[a] = s[c] => a = c

\* floor(n / b) and ceil(n / b), by their defining inequalities
FloorDiv(n, b) == CHOOSE k \in 0..n : k * b <= n /\ n < (k + 1) * b
CeilDiv(n, b) == CHOOSE k \in 0..n : (k - 1) * b < n /\ n <= k * b

\* C1: the adjacency held by the loader is N x N, binary, symmetric, 1 on the
\* diagonal, and off the diagonal 1 exactly where the edge list has the pair
\* in either direction; it and the feature matrix stay so in every state of
\* every iteration.
C1_Adjacency ==
    /\ DOMAIN self_y = 0..N-1
    /\ \A i \in 0..N-1 : DOMAIN self_y[i] = 0..N-1
    /\ \A i, j \in 0..N-1 :
        /\ self_y[i][j] \in {0, 1}
        /\ self_y[i][j] = self_y[j][i]
        /\ i = j => self_y[i][j] = 1
        /\ i # j => (self_y[i][j] = 1 <=>
                        (<<i, j>> \in Range(edge_index) \/ <<j, i>> \in Range(edge_index)))
    /\ self_x = data_x

C1_Witness ==
    /\ lpc = "exhausted"
    /\ it_k >= 2
    /\ N = 3
    /\ edge_index = << <<1, 1>>, <<2, 0>> >>
    /\ self_y[0][2] = 1
    /\ self_y[0][1] = 0

\* C2 as stated: every drawn index set has exactly batch_size distinct node
\* indices, and the yielded submatrices have batch_size rows (and columns).
C2_Original ==
    lpc = "yielded" =>
        /\ Len(random_index) = batch_size
        /\ Injective(random_index)
        /\ Range(random_index) \subseteq 0..N-1
        /\ DOMAIN x_batch = 0..batch_size-1
        /\ DOMAIN y_batch = 0..batch_size-1
        /\ \A p \in DOMAIN y_batch : DOMAIN y_batch[p] = 0..batch_size-1

\* C2 amended: every drawn index set has exactly min(batch_size, N) distinct
\* node indices in 0..N-1, and the yielded submatrices have that many rows
\* (and columns).
C2_BatchShape ==
    lpc = "yielded" =>
        LET m == Min(batch_size, N) IN
        /\ Len(random_index) = m
        /\ Injective(random_index)
        /\ Range(random_index) \subseteq 0..N-1
        /\ DOMAIN x_batch = 0..m-1
        /\ DOMAIN y_batch = 0..m-1
        /\ \A p \in DOMAIN y_batch : DOMAIN y_batch[p] = 0..m-1

C2_Witness ==
    /\ lpc = "yielded"
    /\ N = 2
    /\ batch_size = 3
    /\ Len(random_index) = 2
    /\ NumRows(y_batch) = 2

\* C3: a full iteration yields floor(N/B) batches with drop_last and
\* ceil(N/B) batches without, and __len__ returns that number.
C3_BatchCount ==
    LET want == IF drop_last THEN FloorDiv(N, batch_size)
                ELSE CeilDiv(N, batch_size) IN
    /\ lpc = "exhausted" => it_k = want
    /\ LoaderLen = want

C3_Witness ==
    /\ lpc = "exhausted"
    /\ ~drop_last
    /\ N = 3
    /\ batch_size = 2
    /\ it_k = 2

\* C4: a yielded batch is the subgraph induced by its index sequence: row p
\* of x_batch is feature row idx[p], entry (p, q) of y_batch is adjacency
\* entry (idx[p], idx[q]); so y_batch is symmetric with 1 on its diagonal.
C4_InducedSubgraph ==
    lpc = "yielded" =>
        LET m == Len(random_index)
            at(p) == random_index[p + 1] IN
        /\ DOMAIN x_batch = 0..m-1
        /\ DOMAIN y_batch = 0..m-1
        /\ \A p \in 0..m-1 :
            /\ x_batch[p] = self_x[at(p)]
            /\ DOMAIN y_batch[p] = 0..m-1
            /\ y_batch[p][p] = 1
            /\ \A q \in 0..m-1 :
                /\ y_batch[p][q] = self_y[at(p)][at(q)]
                /\ y_batch[p][q] = y_batch[q][p]

C4_Witness ==
    /\ lpc = "yielded"
    /\ random_index = <<2, 0>>
    /\ edge_index = << <<0, 2>> >>
    /\ y_batch[0][1] = 1
    /\ x_batch[0] = <<2>>

\* ---- a training run over one loader. The module constants epoch_num (3000)
\* and is_saving_model (True) of train_gmlp.py are drawn from small sets;
\* min_loss is written and never read, and is left out.
InitTrain ==
    /\ \E n \in 0..MaxN, b \in 1..MaxB, dl \in BOOLEAN :
        \E x \in XChoices(n) : Construct(x, <<>>, b, dl)
    /\ logging = FALSE
    /\ tpc = "start"
    /\ epoch_num \in 1..MaxEpochNum
    /\ is_saving_model \in BOOLEAN
    /\ epoch = 0
    /\ loader_step = 0
    /\ train_loss = 0
    /\ train_acc = 0
    /\ n_batches = 0
    /\ batch_ops = <<>>
    /\ opt_steps = 0
    /\ saves = 0
    /\ epoch_stats = <<>>
    /\ cur_loss = 0
    /\ DsIdle /\ TriuIdle /\ CleanIdle

NextTrain ==
    \/ TrainBegin /\ UNCHANGED <<dsVars, triuVars, cleanVars>>
    \/ EpochBegin /\ UNCHANGED <<dsVars, triuVars, cleanVars>>
    \/ FetchBatch /\ UNCHANGED <<dsVars, triuVars, cleanVars>>
    \/ FetchStop /\ UNCHANGED <<dsVars, triuVars, cleanVars>>
    \/ Forward /\ UNCHANGED <<dsVars, triuVars, cleanVars>>
    \/ ZeroGrad /\ UNCHANGED <<dsVars, triuVars, cleanVars>>
    \/ ComputeLoss /\ UNCHANGED <<dsVars, triuVars, cleanVars>>
    \/ Backward /\ UNCHANGED <<dsVars, triuVars, cleanVars>>
    \/ OptimizerStep /\ UNCHANGED <<dsVars, triuVars, cleanVars>>
    \/ Accumulate /\ UNCHANGED <<dsVars, triuVars, cleanVars>>
    \/ BatchFails /\ UNCHANGED <<dsVars, triuVars, cleanVars>>
    \/ EpochEnd /\ UNCHANGED <<dsVars, triuVars, cleanVars>>
    \/ EpochEndZeroDiv /\ UNCHANGED <<dsVars, triuVars, cleanVars>>
    \/ SaveAndReturn /\ UNCHANGED <<dsVars, triuVars, cleanVars>>

SpecTrain == InitTrain /\ [][NextTrain]_vars

\* ================================================== claims on train_model

IsPrefix(s, t) == Len(s) <= Len(t) /\ s = SubSeq(t, 1, Len(s))

\* C6: weights are saved at most once, only when is_saving_model is set and
\* only once all epoch_num epochs are over; before that, and after any
\* failure, nothing is saved. A batch runs forward, zero_grad, loss, backward,
\* step in this order, and at the save point the optimizer has stepped
\* epoch_num * len(data_loader) times.
C6_SaveAtEnd ==
    /\ saves \in {0, 1}
    /\ tpc # "done" => saves = 0
    /\ saves = 1 => is_saving_model
    /\ tpc = "done" =>
        /\ epoch = epoch_num
        /\ opt_steps = epoch_num * LoaderLen
        /\ saves = IF is_saving_model THEN 1 ELSE 0
    /\ IsPrefix(batch_ops, BatchOrder)
    /\ tpc = "accumulate" => batch_ops = BatchOrder

C6_Witness ==
    /\ tpc = "done"
    /\ saves = 1
    /\ epoch_num = 2
    /\ LoaderLen = 2
    /\ opt_steps = 4

\* C10: a loader of length 0 makes train_model fail in its first epoch on
\* the division by len(data_loader), with no optimizer step and no save; with
\* a loader of length >= 1 the sums of an epoch are divided by exactly the
\* number of batches the epoch processed.
C10_EmptyLoader ==
    /\ (LoaderLen = 0 /\ tpc # "idle") =>
        /\ tpc \in {"start", "epoch_head", "fetch", "epoch_end", "zero_div"}
        /\ epoch = 0
        /\ opt_steps = 0
        /\ saves = 0
    /\ tpc = "zero_div" => LoaderLen = 0
    /\ (LoaderLen >= 1 /\ epoch_stats # <<>>) =>
        /\ epoch_stats.divisor = epoch_stats.batches
        /\ epoch_stats.divisor = LoaderLen
        /\ epoch_stats.divisor >= 1
    /\ (LoaderLen >= 1 /\ tpc = "epoch_end") => n_batches = LoaderLen

C10_Witness ==
    /\ tpc = "zero_div"
    /\ drop_last
    /\ N = 2
    /\ batch_size = 3
    /\ opt_steps = 0
    /\ saves = 0

\* ---- get_dataset over every samples file and interactions file
InitDataset ==
    /\ ds_names \in SeqsUpTo(Genes, MaxRows)
    /\ ds_has_intr \in BOOLEAN
    /\ ds_intr \in IF ds_has_intr THEN SeqsUpTo(Genes \X Genes, MaxIntr) ELSE {<<>>}
    /\ ds_pc = "called"
    /\ ds_data = <<>>
    /\ LoaderIdle /\ TrainIdle /\ TriuIdle /\ CleanIdle

NextDataset ==
    \/ GetDatasetReturns /\ UNCHANGED <<loaderVars, trainVars, triuVars, cleanVars>>
    \/ GetDatasetRaises /\ UNCHANGED <<loaderVars, trainVars, triuVars, cleanVars>>

SpecDataset == InitDataset /\ [][NextDataset]_vars

\* ---- get_triu_items over every square 0/1 matrix
InitTriu ==
    /\ \E n \in 0..MaxTriuN : tr_m \in [0..n-1 -> [0..n-1 -> {0, 1}]]
    /\ tr_pc = "called"
    /\ tr_out = <<>>
    /\ LoaderIdle /\ TrainIdle /\ DsIdle /\ CleanIdle

NextTriu == GetTriuItems /\ UNCHANGED <<loaderVars, trainVars, dsVars, cleanVars>>

SpecTriu == InitTriu /\ [][NextTriu]_vars

\* ---- clean_data over every filtered samples table and interactions table
InitClean ==
    /\ cl_samples \in SeqsUpTo(Genes, MaxRows)
    /\ cl_intr \in SeqsUpTo(Genes \X Genes, MaxIntr)
    /\ cl_pc = "called"
    /\ cleaned_genes = <<>>
    /\ out_smpl = <<>>
    /\ out_intr = <<>>
    /\ LoaderIdle /\ TrainIdle /\ DsIdle /\ TriuIdle

NextClean ==
    \/ CleanFirstPass /\ UNCHANGED <<loaderVars, trainVars, dsVars, triuVars>>
    \/ CleanSecondPass /\ UNCHANGED <<loaderVars, trainVars, dsVars, triuVars>>
    \/ CleanSecondPassRaises /\ UNCHANGED <<loaderVars, trainVars, dsVars, triuVars>>

SpecClean == InitClean /\ [][NextClean]_vars

\* ================================================== claims on the helpers

\* C7: with an interactions file, a name absent from the samples file makes
\* get_dataset raise and return nothing; with every name present it returns
\* an edge_index of 2*M columns, the M rows' pairs followed by their reverses.
C7_Lookup ==
    (ds_has_intr /\ ds_pc # "called") =>
        LET M == Len(ds_intr)
            nameAt(i) == ds_names[i + 1] IN
        IF Absent(ds_names, ds_intr)
        THEN ds_pc = "raised" /\ ds_data = <<>>
        ELSE /\ ds_pc = "returned"
             /\ Len(ds_data.edge_index) = 2 * M
             /\ \A k \in 1..M :
                 /\ nameAt(ds_data.edge_index[k][1]) = ds_intr[k][1]
                 /\ nameAt(ds_data.edge_index[k][2]) = ds_intr[k][2]
                 /\ ds_data.edge_index[M + k] =
                        <<ds_data.edge_index[k][2], ds_data.edge_index[k][1]>>

C7_Witness ==
    /\ ds_pc = "returned"
    /\ ds_names = <<3, 1, 2>>
    /\ ds_intr = << <<1, 3>>, <<2, 2>> >>
    /\ ds_data.edge_index = << <<1, 0>>, <<2, 2>>, <<0, 1>>, <<2, 2>> >>

\* C8: get_triu_items of an N x N matrix has N*(N-1)/2 items: the entries
\* m[i][j] with i < j, each once, in row-major order.
C8_Triu ==
    tr_pc = "returned" =>
        LET n == NumRows(tr_m)
            pos(i, j) == i * n - (i * (i + 1)) \div 2 + (j - i) IN
        /\ Len(tr_out) = (n * (n - 1)) \div 2
        /\ \A i, j \in 0..n-1 : i < j => tr_out[pos(i, j)] = tr_m[i][j]

C8_Witness ==
    /\ tr_pc = "returned"
    /\ NumRows(tr_m) = 3
    /\ tr_m[0][1] = 1 /\ tr_m[0][2] = 0 /\ tr_m[1][2] = 1
    /\ tr_m[0][0] = 0 /\ tr_m[1][0] = 0
    /\ tr_out = <<1, 0, 1>>

\* ---- the interaction graph over the cleaned genes, by name
CleanedByName == Range(cl_samples) \cap IntrNames(cl_intr)

RECURSIVE NameGrow(_)
NameGrow(S) ==
    LET T == S \cup {g \in CleanedByName :
                    \E k \in DOMAIN cl_intr :
                        \/ cl_intr[k][1] \in S /\ cl_intr[k][2] = g
                        \/ cl_intr[k][2] \in S /\ cl_intr[k][1] = g} IN
    IF T = S THEN S ELSE NameGrow(T)

NameComponents == {NameGrow({g}) : g \in CleanedByName}

\* C9: once clean_data completes, the genes of the output samples file are
\* the vertex set of a largest connected component of the interaction graph
\* over the cleaned genes, and every output interaction has both endpoints
\* among them.
C9_LargestComponent ==
    cl_pc = "done" =>
        /\ \E c \in NameComponents :
            /\ \A d \in NameComponents : Cardinality(c) >= Cardinality(d)
            /\ Range(out_smpl) = c
        /\ \A k \in DOMAIN out_intr :
            out_intr[k][1] \in Range(out_smpl) /\ out_intr[k][2] \in Range(out_smpl)

\* ---- epochs
\* the epochs an iteration can produce: one drawn index sequence per yield
PossibleEpochs == [1..sample_num -> DrawIndex(NumRows(self_x), batch_size)]

\* some entity is in two different batches of epoch e
HasRepeat(e) ==
    \E a, c \in DOMAIN e : a < c /\ Range(e[a]) \cap Range(e[c]) # {}

\* some entity is in no batch of epoch e
HasSkip(e) == \E v \in 0..N-1 : \A a \in DOMAIN e : v \notin Range(e[a])

\* within one batch no entity appears twice, and a finished iteration is one
\* of the possible epochs
EpochShape ==
    /\ lpc = "yielded" => Injective(random_index)
    /\ \A a \in DOMAIN epoch_log : Injective(epoch_log[a])
    /\ lpc = "exhausted" => epoch_log \in PossibleEpochs

\* C5 as stated: whenever 1 <= B < N there is an epoch with an entity in two
\* batches and an epoch with an entity in no batch; within a batch no entity
\* appears twice.
C5_Original ==
    /\ EpochShape
    /\ (lpc = "ready" /\ 1 <= batch_size /\ batch_size < N) =>
        /\ \E e \in PossibleEpochs : HasRepeat(e)
        /\ \E e \in PossibleEpochs : HasSkip(e)

\* C5 amended: whenever 1 <= B < N there is an epoch with an entity in no
\* batch, and, unless drop_last is set with N < 2B (an epoch of one batch),
\* an epoch with an entity in two batches; within a batch no entity appears
\* twice.
C5_NoPartition ==
    /\ EpochShape
    /\ (lpc = "ready" /\ 1 <= batch_size /\ batch_size < N) =>
        /\ (~drop_last \/ N >= 2 * batch_size) =>
            \E e \in PossibleEpochs : HasRepeat(e)
        /\ \E e \in PossibleEpochs : HasSkip(e)

C5_Witness ==
    /\ lpc = "exhausted"
    /\ batch_size < N
    /\ Len(epoch_log) >= 2
    /\ HasRepeat(epoch_log)
    /\ HasSkip(epoch_log)

====
